---- MODULE Spec2Model ----
(***************************************************************************)
(* A model of the .ips crash-report decoder and section builder of         *)
(* ips-page: IPSParser (ips-parser-core.js, plain text) and                *)
(* StructuredIPSParser (structured-parser.js, DOM tree).                   *)
(*                                                                         *)
(* A raw input string is a sequence of tokens.  A token is a newline, a    *)
(* blank, an opening or closing brace, or a complete JSON text that holds  *)
(* no whitespace (a "doc" token, carrying the value it denotes).  An       *)
(* optional field of a JSON object is a sequence: <<>> when the key is     *)
(* absent (JavaScript undefined), <<v>> when it is set to v.               *)
(***************************************************************************)
EXTENDS Integers, Sequences, FiniteSets, TLC

\* ------------------------------------------------------------------ bounds

\* Longest raw input, in tokens, of the decoder's input family.
MaxLen == 3
\* Longest filteredLog / lastExceptionBacktrace / frames list of a report.
MaxItems == 1
\* Longest usedImages list of the frame family.
MaxImages == 2
\* Most threads of a report of the trigger family.
MaxThreads == 2
\* Most named registers of a thread state of the register family.
MaxRegs == 2
\* Most entries of asi, and most elements of an array-valued entry.
MaxAsi == 2
\* Most clicks on the Copy button.
MaxClicks == 2

\* ------------------------------------------------------- JSON values

Undefined == <<>>
Some(v) == <<v>>
IsSet(f) == f # <<>>

\* The object {} : every key absent.
EmptyObj ==
    [ jt |-> "object", bug_type |-> Undefined,
      asi |-> Undefined, lastExceptionBacktrace |-> Undefined,
      threads |-> Undefined, usedImages |-> Undefined,
      extMods |-> Undefined, vmSummary |-> Undefined,
      filteredLog |-> Undefined, faultingThread |-> Undefined ]

\* null, and the number 0: reading a key of 0 gives undefined.
JSNull == [EmptyObj EXCEPT !.jt = "null"]
JSZero == [EmptyObj EXCEPT !.jt = "number0"]

\* JavaScript truthiness of a parsed JSON value / of an optional string.
Truthy(v) == v.jt \notin {"null", "number0"}
TruthyStr(f) == IsSet(f) /\ f[1] # ""

\* Metadata lines.
BugType(ty, v) == [ty |-> ty, v |-> v]
Meta309 == [EmptyObj EXCEPT !.bug_type = Some(BugType("string", "309"))]
Meta1 == [EmptyObj EXCEPT !.bug_type = Some(BugType("string", "1"))]
MetaNum309 == [EmptyObj EXCEPT !.bug_type = Some(BugType("number", "309"))]

\* ------------------------------------------------------------ tokens

NL == [k |-> "nl"]
SP == [k |-> "sp"]
LBrace == [k |-> "lbrace"]
RBrace == [k |-> "rbrace"]
DocTok(d) == [k |-> "doc", d |-> d]

IsWs(t) == t.k \in {"nl", "sp"}

\* ------------------------------------------- String.prototype helpers

RECURSIVE TrimStart(_)
TrimStart(s) ==
    IF s # <<>> /\ IsWs(Head(s)) THEN TrimStart(Tail(s)) ELSE s

RECURSIVE TrimEnd(_)
TrimEnd(s) ==
    IF s # <<>> /\ IsWs(s[Len(s)]) THEN TrimEnd(SubSeq(s, 1, Len(s) - 1)) ELSE s

\* ipsContent.trim()
Trim(s) == TrimEnd(TrimStart(s))

\* s.split('\n'): always at least one (possibly empty) line.
RECURSIVE Split(_)
Split(s) ==
    IF \E i \in 1..Len(s) : s[i] = NL
    THEN LET i == CHOOSE j \in 1..Len(s) :
                     s[j] = NL /\ \A m \in 1..(j - 1) : s[m] # NL
         IN <<SubSeq(s, 1, i - 1)>> \o Split(SubSeq(s, i + 1, Len(s)))
    ELSE <<s>>

\* lines.join('\n')
RECURSIVE Join(_)
Join(lines) ==
    IF Len(lines) = 0 THEN <<>>
    ELSE IF Len(lines) = 1 THEN lines[1]
    ELSE lines[1] \o <<NL>> \o Join(Tail(lines))

\* JSON.parse(text): surrounding whitespace is skipped; a doc token
\* denotes its value; "{" whitespace* "}" denotes {}; anything else is a
\* SyntaxError whose message is a function of the text alone.
JSONParse(text) ==
    LET t == Trim(text) IN
    IF Len(t) = 1 /\ t[1].k = "doc"
    THEN [ok |-> TRUE, v |-> t[1].d]
    ELSE IF /\ Len(t) >= 2
            /\ t[1] = LBrace
            /\ t[Len(t)] = RBrace
            /\ \A i \in 2..(Len(t) - 1) : IsWs(t[i])
    THEN [ok |-> TRUE, v |-> EmptyObj]
    ELSE [ok |-> FALSE, msg |-> [name |-> "SyntaxError", input |-> text]]

\* ------------------------------------------------ decode: parse()

\* new Error(`Failed to parse IPS file: ${error.message}`)
ParseError(inner) == [prefix |-> "Failed to parse IPS file: ", inner |-> inner]

TooFewLinesMsg ==
    [name |-> "Error",
     text |-> "Invalid IPS file format. Expected at least 2 lines (metadata + report)."]

\* `${this.metadata.bug_type}`
BugTypeText(f) == IF IsSet(f) THEN f[1].v ELSE "undefined"

NotCrashReportMsg(f) ==
    [name |-> "Error", text |-> "Not a crash report", bug_type |-> BugTypeText(f),
     expected |-> "Expected bug_type \"309\"."]

NullPropertyMsg == [name |-> "TypeError", text |-> "null has no property bug_type"]

\* Mutant: the loose comparison bug_type != "309", which the number 309 passes.
BugTypeMismatchLoose(metadata) ==
    ~(IsSet(metadata.bug_type) /\ metadata.bug_type[1].v = "309")

\* this.metadata.bug_type !== "309"
BugTypeMismatch(metadata) ==
    ~(IsSet(metadata.bug_type) /\ metadata.bug_type[1] = BugType("string", "309"))

\* Mutant: lines.slice(0), the metadata line included.
ReportLinesFromStart(lines) == Join(lines)

\* The lines after the first, rejoined: lines.slice(1).join('\n')
ReportLines(lines) == Join(Tail(lines))

\* Mutant: no line-count check, and a report part that does not parse is
\* tolerated (this.report keeps its value).
ParseCallLenient(self) ==
    LET lines == Split(Trim(self.ipsContent))
        m == JSONParse(lines[1])
        r == JSONParse(ReportLines(lines))
    IN
    IF ~m.ok
    THEN [metadata |-> self.metadata, report |-> self.report,
          threw |-> TRUE, phase |-> "metadata", msg |-> ParseError(m.msg)]
    ELSE
    LET set == [metadata |-> m.v, report |-> IF r.ok THEN r.v ELSE self.report] IN
    IF m.v.jt = "null"
    THEN set @@ [threw |-> TRUE, phase |-> "bug_type", msg |-> ParseError(NullPropertyMsg)]
    ELSE IF BugTypeMismatch(m.v)
    THEN set @@ [threw |-> TRUE, phase |-> "bug_type",
                 msg |-> ParseError(NotCrashReportMsg(m.v.bug_type))]
    ELSE set @@ [threw |-> FALSE, phase |-> "none", msg |-> <<>>]

\* parse() on a parser whose fields are self.  The result carries the
\* fields as parse() leaves them, whether it threw, the message of the
\* error thrown, and (for the reader of a trace) the statement that
\* threw: "lines", "metadata", "report" or "bug_type".
ParseCall(self) ==
    LET lines == Split(Trim(self.ipsContent))
        kept == [metadata |-> self.metadata, report |-> self.report]
    IN
    IF Len(lines) < 2
    THEN kept @@ [threw |-> TRUE, phase |-> "lines", msg |-> ParseError(TooFewLinesMsg)]
    ELSE
    LET m == JSONParse(lines[1]) IN
    IF ~m.ok
    THEN kept @@ [threw |-> TRUE, phase |-> "metadata", msg |-> ParseError(m.msg)]
    ELSE
    LET r == JSONParse(ReportLines(lines)) IN
    IF ~r.ok
    THEN [metadata |-> m.v, report |-> self.report,
          threw |-> TRUE, phase |-> "report", msg |-> ParseError(r.msg)]
    ELSE
    LET set == [metadata |-> m.v, report |-> r.v] IN
    IF m.v.jt = "null"
    THEN set @@ [threw |-> TRUE, phase |-> "bug_type", msg |-> ParseError(NullPropertyMsg)]
    ELSE IF BugTypeMismatch(m.v)
    THEN set @@ [threw |-> TRUE, phase |-> "bug_type",
                 msg |-> ParseError(NotCrashReportMsg(m.v.bug_type))]
    ELSE set @@ [threw |-> FALSE, phase |-> "none", msg |-> <<>>]


\* ------------------------------------------- build: shared pieces

NotParsedMsg == [name |-> "Error", text |-> "Report not parsed. Call parse() first."]
UsedImagesTypeError == [name |-> "TypeError", text |-> "usedImages is undefined"]
ImageNameTypeError == [name |-> "TypeError", text |-> "imageName is undefined"]
AppendNullTypeError == [name |-> "TypeError", text |-> "appendChild: null is not a Node"]

Returned(out) == [threw |-> FALSE, msg |-> <<>>, out |-> out]
Threw(msg) == [threw |-> TRUE, msg |-> msg, out |-> <<>>]

\* The concatenation of a sequence of sequences.
RECURSIVE Flatten(_)
Flatten(ss) == IF ss = <<>> THEN <<>> ELSE Head(ss) \o Flatten(Tail(ss))

\* report.threads || []
ThreadsOf(report) == IF IsSet(report.threads) THEN report.threads[1] ELSE <<>>
\* thread.frames && thread.frames.length > 0 ? thread.frames : nothing
FramesOf(thread) == IF IsSet(thread.frames) THEN thread.frames[1] ELSE <<>>
\* report.usedImages || []
ImagesOf(report) == IF IsSet(report.usedImages) THEN report.usedImages[1] ELSE <<>>

\* this.report.usedImages[frame.imageIndex], where usedImages is set:
\* undefined for an index outside 0..length-1.
ImageAt(report, frame) ==
    LET images == report.usedImages[1] IN
    IF frame.imageIndex >= 0 /\ frame.imageIndex < Len(images)
    THEN Some(images[frame.imageIndex + 1])
    ELSE Undefined

\* A resolution that takes every base as 0.
BaseIgnored(imageInfo) == 0

\* (imageInfo?.base || 0)
BaseOf(imageInfo) ==
    IF IsSet(imageInfo) /\ IsSet(imageInfo[1].base) THEN imageInfo[1].base[1] ELSE 0

\* Reading usedImages[...] throws when some frame is rendered and the
\* report has no usedImages.
SomeThreadHasFrames(report) ==
    \E i \in 1..Len(ThreadsOf(report)) : FramesOf(ThreadsOf(report)[i]) # <<>>
BacktraceOf(report) ==
    IF IsSet(report.lastExceptionBacktrace) THEN report.lastExceptionBacktrace[1] ELSE <<>>


\* ------------------------------------- build: IPSParser (plain text)
\* The text is a sequence of pieces.  Each piece carries the section it
\* belongs to; Sep is the '\n' formatReport() appends after a section.
\* Scalar identity fields (process, OS, exception codes, ...) are not
\* part of the model: the header and exception pieces stand for them.

Sep == [kind |-> "sep"]

\* formatHeader()
formatHeader(report, metadata) ==
    << [sec |-> "Process Information", kind |-> "header",
        triggeredBy |-> report.faultingThread] >>

\* formatException()
formatException(report) ==
    << [sec |-> "Exception Information", kind |-> "exception"] >>

\* formatASI(): an array value prints its elements alone, a scalar
\* prints "key: value".
formatASIEntry(e) ==
    IF e.arr
    THEN [j \in 1..Len(e.items) |->
            [sec |-> "Application Specific Information", kind |-> "row",
             label |-> Undefined, value |-> e.items[j]]]
    ELSE << [sec |-> "Application Specific Information", kind |-> "row",
             label |-> Some(e.key), value |-> e.items[1]] >>

formatASI(report) ==
    << [sec |-> "Application Specific Information", kind |-> "title",
        title |-> "Application Specific Information:"] >>
    \o Flatten([i \in 1..Len(report.asi[1]) |-> formatASIEntry(report.asi[1][i])])

\* frame.symbol || `0x${base.toString(16)} + ${frame.imageOffset}`, then
\* ` + ${frame.symbolLocation}` when symbolLocation is defined.
FrameLabel(frame, base) ==
    [symbol |-> IF TruthyStr(frame.symbol) THEN frame.symbol ELSE Undefined,
     fallback |-> IF TruthyStr(frame.symbol) THEN Undefined
                  ELSE Some([base |-> base, offset |-> frame.imageOffset]),
     location |-> frame.symbolLocation]

\* One row of formatLastExceptionBacktrace().
BacktraceFrameRow(report, frame, index) ==
    LET imageInfo == ImageAt(report, frame) IN
    [sec |-> "Last Exception Backtrace", kind |-> "frame", index |-> index,
     name |-> IF IsSet(imageInfo) THEN imageInfo[1].name[1] ELSE "Unknown",
     addr |-> BaseOf(imageInfo) + frame.imageOffset,
     label |-> FrameLabel(frame, BaseOf(imageInfo))]

\* imageName.padEnd(...) throws when the image has no name.
BacktraceFrameThrows(report, frame) ==
    LET imageInfo == ImageAt(report, frame) IN
    IsSet(imageInfo) /\ ~IsSet(imageInfo[1].name)

\* formatLastExceptionBacktrace()
formatLastExceptionBacktrace(report) ==
    LET backtrace == BacktraceOf(report) IN
    IF backtrace = <<>> THEN Returned(<<>>)
    ELSE IF ~IsSet(report.usedImages) THEN Threw(UsedImagesTypeError)
    ELSE IF \E i \in 1..Len(backtrace) : BacktraceFrameThrows(report, backtrace[i])
    THEN Threw(ImageNameTypeError)
    ELSE Returned(
           << [sec |-> "Last Exception Backtrace", kind |-> "title",
               title |-> "Last Exception Backtrace:"] >>
           \o [i \in 1..Len(backtrace) |->
                 BacktraceFrameRow(report, backtrace[i], i - 1)])

\* One frame row of formatThreads().
ThreadFrameRow(report, frame, index) ==
    LET imageInfo == ImageAt(report, frame) IN
    [sec |-> "Threads", kind |-> "frame", index |-> index,
     name |-> IF IsSet(imageInfo) /\ TruthyStr(imageInfo[1].name)
              THEN imageInfo[1].name[1] ELSE "???",
     addr |-> BaseOf(imageInfo) + frame.imageOffset,
     label |-> FrameLabel(frame, BaseOf(imageInfo))]


\* A layout that lists pc before sp.
ArmNamedRegsSwapped == << "fp", "lr", "pc", "sp", "cpsr", "far", "esr" >>

\* The register layouts of formatThreadState().
ArmNamedRegs == << "fp", "lr", "sp", "pc", "cpsr", "far", "esr" >>
X86Regs ==
    << "rax", "rbx", "rcx", "rdx", "rdi", "rsi", "rbp", "rsp",
       "r8", "r9", "r10", "r11", "r12", "r13", "r14", "r15",
       "rip", "rflags", "cr2" >>

\* 'x' + i
XName(i) ==
    << "x0", "x1", "x2", "x3", "x4", "x5", "x6", "x7", "x8", "x9",
       "x10", "x11", "x12", "x13", "x14", "x15", "x16", "x17", "x18", "x19",
       "x20", "x21", "x22", "x23", "x24", "x25", "x26", "x27", "x28" >>[i + 1]

\* A lookup that takes a register whose value is 0 for absent.
RegAtNonZero(state, regName) ==
    IF \E i \in 1..Len(state.regs) :
          state.regs[i].name = regName /\ state.regs[i].reg.value # Some(0)
    THEN Some(state.regs[CHOOSE i \in 1..Len(state.regs) :
                            state.regs[i].name = regName].reg)
    ELSE Undefined

\* state[regName]: the register object stored under the key, if any.
\* state.regs lists the state's named keys in the order of the input.
RegAt(state, regName) ==
    IF \E i \in 1..Len(state.regs) : state.regs[i].name = regName
    THEN Some(state.regs[CHOOSE i \in 1..Len(state.regs) :
                            state.regs[i].name = regName].reg)
    ELSE Undefined

\* value = reg.object.value || 0, and the optional description.
RegisterRow(name, object) ==
    [name |-> name,
     value |-> IF IsSet(object.value) THEN object.value[1] ELSE 0,
     description |-> IF TruthyStr(object.description) THEN object.description
                     ELSE Undefined]

\* A registers array with a row for every name of the layout, showing 0
\* for a register the state does not hold.
NamedRegistersZeroFilled(state, names) ==
    [i \in 1..Len(names) |->
        RegisterRow(IF names[i] = "rflags" THEN "rfl" ELSE names[i],
                    IF IsSet(RegAt(state, names[i])) THEN RegAt(state, names[i])[1]
                    ELSE [value |-> Undefined, description |-> Undefined])]

\* The registers array built by the switch on state.flavor.
NamedRegisters(state, names) ==
    LET present == SelectSeq(names, LAMBDA n : IsSet(RegAt(state, n))) IN
    [i \in 1..Len(present) |->
        RegisterRow(IF present[i] = "rflags" THEN "rfl" ELSE present[i],
                    RegAt(state, present[i])[1])]

Registers(state) ==
    IF state.flavor = "ARM_THREAD_STATE64"
    THEN (IF IsSet(state.x)
          THEN [i \in 1..Len(state.x[1]) |->
                  RegisterRow(XName(i - 1), state.x[1][i])]
          ELSE <<>>)
         \o NamedRegisters(state, ArmNamedRegs)
    ELSE IF state.flavor = "x86_THREAD_STATE"
    THEN NamedRegisters(state, X86Regs)
    ELSE <<>>

\* formatThreadState(thread, threadNum): nothing for an unknown flavor.
\* (The x86 cpu / err / trap lines are not part of the model.)
formatThreadState(thread, threadNum) ==
    LET state == thread.threadState[1] IN
    IF state.flavor \notin {"ARM_THREAD_STATE64", "x86_THREAD_STATE"} THEN <<>>
    ELSE << [sec |-> "Threads", kind |-> "state", thread |-> threadNum,
             title |-> IF state.flavor = "ARM_THREAD_STATE64"
                       THEN "ARM Thread State (64-bit)"
                       ELSE "X86 Thread State (64-bit)",
             registers |-> Registers(state)] >>

\* The header line and the frame rows of one thread.
formatThread(report, thread) ==
    << [sec |-> "Threads", kind |-> "thread", id |-> thread.id,
        name |-> IF TruthyStr(thread.name) THEN thread.name ELSE Undefined,
        crashed |-> thread.triggered,
        queue |-> IF TruthyStr(thread.queue) THEN thread.queue ELSE Undefined] >>
    \o [i \in 1..Len(FramesOf(thread)) |->
          ThreadFrameRow(report, FramesOf(thread)[i], i - 1)]

\* threads.find(t => t.triggered)
CrashedThread(threads) ==
    IF \E i \in 1..Len(threads) : threads[i].triggered
    THEN Some(threads[CHOOSE i \in 1..Len(threads) :
                 threads[i].triggered /\ \A j \in 1..(i - 1) : ~threads[j].triggered])
    ELSE Undefined

\* formatThreads()
formatThreads(report) ==
    LET threads == ThreadsOf(report)
        crashedThread == CrashedThread(threads)
    IN
    IF SomeThreadHasFrames(report) /\ ~IsSet(report.usedImages)
    THEN Threw(UsedImagesTypeError)
    ELSE Returned(
           << [sec |-> "Threads", kind |-> "open"] >>
           \o Flatten([i \in 1..Len(threads) |-> formatThread(report, threads[i])])
           \o (IF /\ IsSet(report.faultingThread)
                  /\ IsSet(crashedThread)
                  /\ IsSet(crashedThread[1].threadState)
               THEN formatThreadState(crashedThread[1], report.faultingThread[1])
               ELSE <<>>))

\* formatBinaryImages(): entries with size === 0 are skipped.
BinaryImageRow(image) ==
    LET base == IF IsSet(image.base) THEN image.base[1] ELSE 0 IN
    [sec |-> "Binary Images", kind |-> "image",
     base |-> base,
     end |-> base + (IF IsSet(image.size) THEN image.size[1] ELSE 0) - 1,
     name |-> IF TruthyStr(image.name) THEN image.name[1] ELSE "???"]

\* A listing that skips no entry.
NothingSkipped(image) == FALSE

IsPlaceholder(image) == image.size = Some(0)

formatBinaryImages(report) ==
    LET listed == SelectSeq(ImagesOf(report), LAMBDA image : ~IsPlaceholder(image)) IN
    << [sec |-> "Binary Images", kind |-> "title", title |-> "Binary Images:"] >>
    \o [i \in 1..Len(listed) |-> BinaryImageRow(listed[i])]

\* formatExtMods(): one subsection per group that is set, listing the
\* counters that are defined.
ExtModCounters == << "task_for_pid", "thread_create", "thread_set_state" >>

\* A subsection that lists a counter only when its value is truthy.
ExtModGroupTruthy(extMods, group) ==
    IF ~IsSet(extMods[group]) THEN <<>>
    ELSE LET defined == SelectSeq(ExtModCounters,
                                  LAMBDA c : /\ IsSet(extMods[group][1][c])
                                             /\ extMods[group][1][c][1] # 0)
         IN << [sec |-> "External Modification Summary", kind |-> "group",
                group |-> group,
                counters |-> [i \in 1..Len(defined) |->
                                [name |-> defined[i],
                                 value |-> extMods[group][1][defined[i]][1]]]] >>

ExtModGroup(extMods, group) ==
    IF ~IsSet(extMods[group]) THEN <<>>
    ELSE LET defined == SelectSeq(ExtModCounters,
                                  LAMBDA c : IsSet(extMods[group][1][c]))
         IN << [sec |-> "External Modification Summary", kind |-> "group",
                group |-> group,
                counters |-> [i \in 1..Len(defined) |->
                                [name |-> defined[i],
                                 value |-> extMods[group][1][defined[i]][1]]]] >>

formatExtMods(report) ==
    IF ~IsSet(report.extMods) THEN <<>>
    ELSE << [sec |-> "External Modification Summary", kind |-> "title",
             title |-> "External Modification Summary:"] >>
         \o ExtModGroup(report.extMods[1], "targeted")
         \o ExtModGroup(report.extMods[1], "caller")
         \o ExtModGroup(report.extMods[1], "system")


\* A formatReport() without the parsed-state test: it returns an empty
\* text.
formatReportSilent(metadata, report) == Returned(<<>>)

\* formatReport() of IPSParser.
formatReport(metadata, report) ==
    IF ~Truthy(metadata) \/ ~Truthy(report) THEN Threw(NotParsedMsg)
    ELSE
    LET backtrace == IF IsSet(report.lastExceptionBacktrace)
                     THEN formatLastExceptionBacktrace(report)
                     ELSE Returned(<<>>)
        threads == formatThreads(report)
    IN
    IF backtrace.threw THEN Threw(backtrace.msg)
    ELSE IF threads.threw THEN Threw(threads.msg)
    ELSE Returned(
        formatHeader(report, metadata) \o <<Sep>>
        \o formatException(report) \o <<Sep>>
        \o (IF IsSet(report.asi) THEN formatASI(report) \o <<Sep>> ELSE <<>>)
        \o (IF IsSet(report.lastExceptionBacktrace)
            THEN backtrace.out \o <<Sep>> ELSE <<>>)
        \o threads.out \o <<Sep>>
        \o formatBinaryImages(report) \o <<Sep>>
        \o (IF IsSet(report.extMods) THEN formatExtMods(report) \o <<Sep>> ELSE <<>>)
        \o (IF TruthyStr(report.vmSummary)
            THEN << [sec |-> "VM Region Summary", kind |-> "title",
                     title |-> "VM Region Summary:"],
                    [sec |-> "VM Region Summary", kind |-> "text",
                     text |-> report.vmSummary[1]],
                    Sep >>
            ELSE <<>>)
        \o (IF IsSet(report.filteredLog) /\ Len(report.filteredLog[1]) > 0
            THEN << [sec |-> "Filtered Log", kind |-> "title",
                     title |-> "Filtered log messages:"],
                    [sec |-> "Filtered Log", kind |-> "lines",
                     lines |-> report.filteredLog[1]],
                    Sep, Sep >>
            ELSE <<>>))

\* ------------------------------ build: StructuredIPSParser (DOM tree)
\* The fragment is the sequence of its child sections.  A section is
\* its <summary> title, whether its <details> starts open, and its rows.

Section(sec, title, open, rows) ==
    [sec |-> sec, title |-> title, open |-> open, rows |-> rows]

\* The DOM formatters return a node, or null.
Null == <<>>
Node(n) == <<n>>

\* formatProcessInfo()
formatProcessInfo(report, metadata) ==
    Section("Process Information", "Process Information", TRUE, <<>>)

\* formatException() of StructuredIPSParser
formatExceptionDom(report) ==
    Section("Exception Information", "Exception Information", TRUE,
            IF IsSet(report.faultingThread)
            THEN << [kind |-> "faultingThread", thread |-> report.faultingThread[1]] >>
            ELSE <<>>)

\* formatASI() of StructuredIPSParser: the key labels every row.
formatASIEntryDom(e) ==
    [j \in 1..Len(e.items) |->
        [kind |-> "row", label |-> Some(e.key), value |-> e.items[j]]]

formatASIDom(report) ==
    Section("Application Specific Information", "Application Specific Information",
            TRUE,
            Flatten([i \in 1..Len(report.asi[1]) |->
                       formatASIEntryDom(report.asi[1][i])]))

\* A stack-frame row of StructuredIPSParser (backtrace and threads alike):
\* the symbol, and the symbol location only beside a symbol.
FrameRowDom(report, frame, index) ==
    LET imageInfo == ImageAt(report, frame) IN
    [kind |-> "frame", index |-> index,
     name |-> IF IsSet(imageInfo)
              THEN (IF IsSet(imageInfo[1].name) THEN imageInfo[1].name[1] ELSE "")
              ELSE "Unknown",
     addr |-> BaseOf(imageInfo) + frame.imageOffset,
     label |-> [symbol |-> IF TruthyStr(frame.symbol) THEN frame.symbol ELSE Undefined,
                fallback |-> Undefined,
                location |-> IF TruthyStr(frame.symbol) THEN frame.symbolLocation
                             ELSE Undefined]]

\* formatLastExceptionBacktrace() of StructuredIPSParser: null for an
\* empty backtrace.
formatLastExceptionBacktraceDom(report) ==
    LET backtrace == BacktraceOf(report) IN
    IF backtrace = <<>> THEN Returned(Null)
    ELSE IF ~IsSet(report.usedImages) THEN Threw(UsedImagesTypeError)
    ELSE Returned(Node(
           Section("Last Exception Backtrace", "Last Exception Backtrace", FALSE,
                   [i \in 1..Len(backtrace) |->
                      FrameRowDom(report, backtrace[i], i - 1)])))

\* The registers array of StructuredIPSParser.formatThreadState().
RegistersDom(state) ==
    IF state.flavor = "ARM_THREAD_STATE64"
    THEN (IF IsSet(state.x)
          THEN [i \in 1..Len(state.x[1]) |->
                  RegisterRow(XName(i - 1), state.x[1][i])]
          ELSE <<>>)
         \o NamedRegisters(state, ArmNamedRegs)
    ELSE IF state.flavor = "x86_THREAD_STATE"
    THEN NamedRegisters(state, X86Regs)
    ELSE <<>>

\* formatThreadState(state) of StructuredIPSParser.
formatThreadStateDom(state) ==
    [kind |-> "state",
     title |-> IF state.flavor = "ARM_THREAD_STATE64" THEN "ARM Thread State (64-bit)"
               ELSE IF state.flavor = "x86_THREAD_STATE" THEN "X86 Thread State (64-bit)"
               ELSE "Register State",
     registers |-> RegistersDom(state)]

\* One thread item: header, frames, and the register state of a
\* triggered thread.
formatThreadDom(report, thread) ==
    << [kind |-> "thread", id |-> thread.id,
        name |-> IF TruthyStr(thread.name) THEN thread.name ELSE Undefined,
        queue |-> IF TruthyStr(thread.queue) THEN thread.queue ELSE Undefined,
        crashed |-> thread.triggered] >>
    \o [i \in 1..Len(FramesOf(thread)) |->
          FrameRowDom(report, FramesOf(thread)[i], i - 1)]
    \o (IF thread.triggered /\ IsSet(thread.threadState)
        THEN << formatThreadStateDom(thread.threadState[1]) >>
        ELSE <<>>)

\* formatThreads() of StructuredIPSParser
formatThreadsDom(report) ==
    LET threads == ThreadsOf(report) IN
    IF SomeThreadHasFrames(report) /\ ~IsSet(report.usedImages)
    THEN Threw(UsedImagesTypeError)
    ELSE Returned(
           Section("Threads", "Threads", TRUE,
                   Flatten([i \in 1..Len(threads) |->
                              formatThreadDom(report, threads[i])])))

\* formatBinaryImages() of StructuredIPSParser
BinaryImageRowDom(image) ==
    LET base == IF IsSet(image.base) THEN image.base[1] ELSE 0 IN
    [kind |-> "image",
     base |-> base,
     end |-> base + (IF IsSet(image.size) THEN image.size[1] ELSE 0) - 1,
     name |-> IF TruthyStr(image.name) THEN image.name[1] ELSE "???"]

formatBinaryImagesDom(report) ==
    LET listed == SelectSeq(ImagesOf(report), LAMBDA image : ~IsPlaceholder(image)) IN
    Section("Binary Images", "Binary Images", FALSE,
            [i \in 1..Len(listed) |-> BinaryImageRowDom(listed[i])])

\* formatExtMods() of StructuredIPSParser: null when extMods is not set.
ExtModGroupDom(extMods, group) ==
    IF ~IsSet(extMods[group]) THEN <<>>
    ELSE LET defined == SelectSeq(ExtModCounters,
                                  LAMBDA c : IsSet(extMods[group][1][c]))
         IN << [kind |-> "group", group |-> group,
                counters |-> [i \in 1..Len(defined) |->
                                [name |-> defined[i],
                                 value |-> extMods[group][1][defined[i]][1]]]] >>

formatExtModsDom(report) ==
    IF ~IsSet(report.extMods) THEN Null
    ELSE Node(Section("External Modification Summary",
                      "External Modification Summary", FALSE,
                      ExtModGroupDom(report.extMods[1], "targeted")
                      \o ExtModGroupDom(report.extMods[1], "caller")
                      \o ExtModGroupDom(report.extMods[1], "system")))

\* formatVMSummary()
formatVMSummary(report) ==
    Section("VM Region Summary", "VM Region Summary", FALSE,
            << [kind |-> "text", text |-> report.vmSummary[1]] >>)

\* formatFilteredLog()
formatFilteredLog(report) ==
    Section("Filtered Log", "Filtered log messages", FALSE,
            << [kind |-> "lines", lines |-> report.filteredLog[1]] >>)

\* Mutant: Binary Images appended before Threads.
formatReportDomSwapped(metadata, report) ==
    IF ~Truthy(metadata) \/ ~Truthy(report) THEN Threw(NotParsedMsg)
    ELSE
    LET backtrace == IF IsSet(report.lastExceptionBacktrace)
                     THEN formatLastExceptionBacktraceDom(report)
                     ELSE Returned(Null)
        threads == formatThreadsDom(report)
    IN
    IF backtrace.threw THEN Threw(backtrace.msg)
    ELSE IF IsSet(report.lastExceptionBacktrace) /\ backtrace.out = Null
    THEN Threw(AppendNullTypeError)
    ELSE IF threads.threw THEN Threw(threads.msg)
    ELSE Returned(
        << formatProcessInfo(report, metadata), formatExceptionDom(report) >>
        \o (IF IsSet(report.asi) THEN << formatASIDom(report) >> ELSE <<>>)
        \o backtrace.out
        \o << formatBinaryImagesDom(report), threads.out >>
        \o formatExtModsDom(report)
        \o (IF TruthyStr(report.vmSummary) THEN << formatVMSummary(report) >> ELSE <<>>)
        \o (IF IsSet(report.filteredLog) /\ Len(report.filteredLog[1]) > 0
            THEN << formatFilteredLog(report) >> ELSE <<>>))

\* formatReport() of StructuredIPSParser.  container.appendChild(null)
\* throws a TypeError.
formatReportDom(metadata, report) ==
    IF ~Truthy(metadata) \/ ~Truthy(report) THEN Threw(NotParsedMsg)
    ELSE
    LET backtrace == IF IsSet(report.lastExceptionBacktrace)
                     THEN formatLastExceptionBacktraceDom(report)
                     ELSE Returned(Null)
        threads == formatThreadsDom(report)
        extModsSection == formatExtModsDom(report)
    IN
    IF backtrace.threw THEN Threw(backtrace.msg)
    ELSE IF IsSet(report.lastExceptionBacktrace) /\ backtrace.out = Null
    THEN Threw(AppendNullTypeError)
    ELSE IF threads.threw THEN Threw(threads.msg)
    ELSE Returned(
        << formatProcessInfo(report, metadata), formatExceptionDom(report) >>
        \o (IF IsSet(report.asi) THEN << formatASIDom(report) >> ELSE <<>>)
        \o backtrace.out
        \o << threads.out, formatBinaryImagesDom(report) >>
        \o extModsSection
        \o (IF TruthyStr(report.vmSummary) THEN << formatVMSummary(report) >> ELSE <<>>)
        \o (IF IsSet(report.filteredLog) /\ Len(report.filteredLog[1]) > 0
            THEN << formatFilteredLog(report) >> ELSE <<>>))


\* ------------------------------------------------------------ inputs

\* The decoder's input family: every string of at most MaxLen tokens.
DecodeTokens ==
    { NL, SP, LBrace, RBrace,
      DocTok(Meta309), DocTok(Meta1), DocTok(MetaNum309),
      DocTok(EmptyObj), DocTok(JSNull), DocTok(JSZero) }

DecodeInputs == UNION { [1..n -> DecodeTokens] : n \in 0..MaxLen }

\* The builder's input family: a "309" metadata line and one report line.
Frame0 ==
    [imageIndex |-> 0, imageOffset |-> 16, symbol |-> Undefined,
     symbolLocation |-> Undefined]
ImageA == [base |-> Some(4096), size |-> Some(256), name |-> Some("A")]
ThreadOf(frames) ==
    [id |-> 0, name |-> Undefined, queue |-> Undefined, triggered |-> FALSE,
     frames |-> Some(frames), threadState |-> Undefined]
NoCounters ==
    [task_for_pid |-> Undefined, thread_create |-> Undefined,
     thread_set_state |-> Undefined]
NoGroups == [targeted |-> Undefined, caller |-> Undefined, system |-> Undefined]

\* Every list of at most MaxItems copies of x, and the absent list.
OptionalLists(x) == {Undefined} \cup { Some([i \in 1..n |-> x]) : n \in 0..MaxItems }

AsiValues ==
    { Undefined, Some(<<>>),
      Some(<< [key |-> "k", arr |-> FALSE, items |-> <<"v">>] >>) }
ExtModsValues ==
    { Undefined, Some(NoGroups),
      Some([NoGroups EXCEPT !.targeted =
              Some([NoCounters EXCEPT !.task_for_pid = Some(0)])]) }
VmSummaryValues == { Undefined, Some(""), Some("vm") }

BuildReports ==
    { [EmptyObj EXCEPT !.asi = a, !.lastExceptionBacktrace = b, !.threads = t,
                       !.usedImages = u, !.extMods = e, !.vmSummary = v,
                       !.filteredLog = f] :
        a \in AsiValues, b \in OptionalLists(Frame0),
        t \in { IF IsSet(fs) THEN Some(<< ThreadOf(fs[1]) >>) ELSE Undefined :
                  fs \in OptionalLists(Frame0) },
        u \in { Undefined, Some(<< ImageA >>) },
        e \in ExtModsValues, v \in VmSummaryValues, f \in OptionalLists("log") }

BuildInputs == { << DocTok(Meta309), NL, DocTok(r) >> : r \in BuildReports }

\* The frame family: one frame, rendered both in a thread and in the last
\* exception backtrace, over every list of at most MaxImages images.  The
\* frame's imageIndex runs from -1 to MaxImages, so it falls before, in
\* and behind every list.
ImageP == [base |-> Some(8192), size |-> Some(0), name |-> Some("P")]
ImageB == [base |-> Undefined, size |-> Some(256), name |-> Some("B")]
ImageN == [base |-> Some(12288), size |-> Undefined, name |-> Undefined]
ImageQ == [base |-> Undefined, size |-> Some(0), name |-> Undefined]
ImageValues == { ImageA, ImageP, ImageB, ImageN, ImageQ }
ImageLists == UNION { [1..n -> ImageValues] : n \in 0..MaxImages }

FrameValues ==
    [imageIndex : -1..MaxImages, imageOffset : {16},
     symbol : { Undefined, Some("main") },
     symbolLocation : { Undefined, Some(0), Some(4) }]

FrameReports ==
    { [EmptyObj EXCEPT !.usedImages = Some(images),
                       !.threads = Some(<< ThreadOf(<< frame >>) >>),
                       !.lastExceptionBacktrace = Some(<< frame >>)] :
        images \in ImageLists, frame \in FrameValues }

FrameInputs == { << DocTok(Meta309), NL, DocTok(r) >> : r \in FrameReports }

\* The trigger family: at most MaxThreads threads of one frame each, at
\* most one of them triggered, each with or without a thread state, and
\* faultingThread absent or the index of a thread.
RegisterOf(value) == [value |-> Some(value), description |-> Undefined]
SampleState ==
    [flavor |-> "ARM_THREAD_STATE64", x |-> Undefined,
     regs |-> << [name |-> "pc", reg |-> RegisterOf(7)] >>]

ThreadChoices(n) ==
    { c \in [1..n -> [triggered : BOOLEAN, state : BOOLEAN]] :
        Cardinality({ i \in 1..n : c[i].triggered }) <= 1 }
ThreadLists ==
    UNION { { [i \in 1..n |->
                 [ThreadOf(<< Frame0 >>) EXCEPT
                     !.id = i - 1,
                     !.triggered = c[i].triggered,
                     !.threadState = IF c[i].state THEN Some(SampleState)
                                     ELSE Undefined]] :
              c \in ThreadChoices(n) } : n \in 1..MaxThreads }

TriggerReports ==
    { [EmptyObj EXCEPT !.usedImages = Some(<< ImageA >>),
                       !.threads = Some(threads), !.faultingThread = ft] :
        threads \in ThreadLists,
        ft \in {Undefined} \cup { Some(i) : i \in 0..(MaxThreads - 1) } }

TriggerInputs == { << DocTok(Meta309), NL, DocTok(r) >> : r \in TriggerReports }

\* The register family: the faulting, triggered thread 0 with a thread
\* state of each flavor, holding at most MaxRegs named registers in every
\* key order, each with value 0 or with a non-zero value and a
\* description; "rax" in an ARM state and "pc" in an x86 state are keys
\* outside the flavor's layout.
RegisterValues ==
    { RegisterOf(0), [value |-> Some(7), description |-> Some("d")] }
RegLists(pool) ==
    UNION { { s \in [1..n -> [name : pool, reg : RegisterValues]] :
                \A i, j \in 1..n : i # j => s[i].name # s[j].name } :
            n \in 0..MaxRegs }
ArmPool == { "pc", "sp", "lr", "rax" }
X86Pool == { "rip", "rflags", "rax", "pc" }

StateValues ==
    { [flavor |-> "ARM_THREAD_STATE64", x |-> x, regs |-> regs] :
        x \in { Undefined, Some(<< RegisterOf(7) >>),
                Some(<< RegisterOf(0), RegisterOf(7) >>) },
        regs \in RegLists(ArmPool) }
    \cup { [flavor |-> "x86_THREAD_STATE", x |-> Undefined, regs |-> regs] :
             regs \in RegLists(X86Pool) }
    \cup { [flavor |-> "PPC_THREAD_STATE64", x |-> Undefined, regs |-> regs] :
             regs \in { <<>>, << [name |-> "pc", reg |-> RegisterOf(7)] >> } }

RegisterReports ==
    { [EmptyObj EXCEPT
          !.threads = Some(<< [ThreadOf(<<>>) EXCEPT
                                 !.triggered = TRUE,
                                 !.threadState = Some(state)] >>),
          !.faultingThread = Some(0)] :
        state \in StateValues }

RegisterInputs == { << DocTok(Meta309), NL, DocTok(r) >> : r \in RegisterReports }

\* The asi family: at most MaxAsi entries under distinct keys, each a
\* scalar or an array of at most MaxAsi elements.
AsiElements == { "v", "w" }
AsiEntries ==
    { [key |-> k, arr |-> FALSE, items |-> << v >>] :
        k \in { "k", "m" }, v \in AsiElements }
    \cup { [key |-> k, arr |-> TRUE, items |-> items] :
             k \in { "k", "m" },
             items \in UNION { [1..n -> AsiElements] : n \in 0..MaxAsi } }
AsiLists ==
    UNION { { es \in [1..n -> AsiEntries] :
                \A i, j \in 1..n : i # j => es[i].key # es[j].key } :
            n \in 0..MaxAsi }

AsiReports == { [EmptyObj EXCEPT !.asi = Some(es)] : es \in AsiLists }
AsiInputs == { << DocTok(Meta309), NL, DocTok(r) >> : r \in AsiReports }

\* The extMods family: each of targeted, caller, system absent or set,
\* with each counter undefined or defined (two of them with value 0).
CounterValues ==
    [task_for_pid : { Undefined, Some(0) },
     thread_create : { Undefined, Some(3) },
     thread_set_state : { Undefined, Some(0) }]
GroupValues == {Undefined} \cup { Some(c) : c \in CounterValues }
ExtModsReports ==
    { [EmptyObj EXCEPT !.extMods =
          Some([targeted |-> t, caller |-> c, system |-> y])] :
        t \in GroupValues, c \in GroupValues, y \in GroupValues }
ExtModsInputs == { << DocTok(Meta309), NL, DocTok(r) >> : r \in ExtModsReports }

Inputs ==
    DecodeInputs \cup BuildInputs \cup FrameInputs \cup TriggerInputs
    \cup RegisterInputs \cup AsiInputs \cup ExtModsInputs

\* ------------------------------------------------------- the system
\* One document and two parsers built from it: an IPSParser ("text") and
\* a StructuredIPSParser ("dom").

Parsers == { "text", "dom" }

VARIABLES
    ipsContent,   \* the raw string both parsers were constructed with
    metadata,     \* metadata[p]: this.metadata of parser p
    report,       \* report[p]: this.report of parser p
    parsed,       \* parsed[p]: how the last parse() of p ended
    formatted,    \* formatted[p]: how the last formatReport() of p since then ended
    cli,          \* the run of cli-parser.js: arguments, file, position, output
    page          \* the page of a UI controller: textarea, blocks, Copy button

vars == << ipsContent, metadata, report, parsed, formatted, cli, page >>

\* No command-line run and no page: the parsers are driven directly.
NoCli == [pc |-> "none"]
NoPage == [kind |-> "none"]

NotCalled == [st |-> "none"]

\* constructor(ipsContent)
Init ==
    /\ ipsContent \in Inputs
    /\ metadata = [p \in Parsers |-> JSNull]
    /\ report = [p \in Parsers |-> JSNull]
    /\ parsed = [p \in Parsers |-> NotCalled]
    /\ formatted = [p \in Parsers |-> NotCalled]
    /\ cli = NoCli
    /\ page = NoPage

\* p = new IPSParser(ipsContent) / new StructuredIPSParser(ipsContent)
New(p) ==
    /\ metadata' = [metadata EXCEPT ![p] = JSNull]
    /\ report' = [report EXCEPT ![p] = JSNull]
    /\ parsed' = [parsed EXCEPT ![p] = NotCalled]
    /\ formatted' = [formatted EXCEPT ![p] = NotCalled]
    /\ UNCHANGED << ipsContent, cli, page >>

\* p.parse()
Parse(p) ==
    LET r == ParseCall([ipsContent |-> ipsContent, metadata |-> metadata[p],
                        report |-> report[p]])
    IN
    /\ metadata' = [metadata EXCEPT ![p] = r.metadata]
    /\ report' = [report EXCEPT ![p] = r.report]
    /\ parsed' = [parsed EXCEPT ![p] =
                    [st |-> IF r.threw THEN "threw" ELSE "ok",
                     phase |-> r.phase, msg |-> r.msg]]
    /\ formatted' = [formatted EXCEPT ![p] = NotCalled]
    /\ UNCHANGED << ipsContent, cli, page >>

CallResult(r) ==
    [st |-> IF r.threw THEN "threw" ELSE "ok", msg |-> r.msg, out |-> r.out]

\* A formatReport() that consumes the parsed report.
FormatReportConsuming ==
    /\ formatted' = [formatted EXCEPT !["text"] =
                        CallResult(formatReport(metadata["text"], report["text"]))]
    /\ report' = [report EXCEPT !["text"] = JSNull]
    /\ UNCHANGED << ipsContent, metadata, parsed, cli, page >>

\* text.formatReport()
FormatReport ==
    /\ formatted' = [formatted EXCEPT !["text"] =
                        CallResult(formatReport(metadata["text"], report["text"]))]
    /\ UNCHANGED << ipsContent, metadata, report, parsed, cli, page >>

\* dom.formatReport()
FormatReportDom ==
    /\ formatted' = [formatted EXCEPT !["dom"] =
                        CallResult(formatReportDom(metadata["dom"], report["dom"]))]
    /\ UNCHANGED << ipsContent, metadata, report, parsed, cli, page >>

Next ==
    \/ \E p \in Parsers : New(p)
    \/ \E p \in Parsers : Parse(p)
    \/ FormatReport
    \/ FormatReportDom

Spec == Init /\ [][Next]_vars


\* ------------------------------------------------- the command line
\* One run of main(args) of cli-parser.js.  The file system is the one
\* file the first argument names: unreadable, or readable with a content.
\* cli.out is what print() wrote, line by line (the usage text counts as
\* one line); cli.code is the argument of quit(); cli.ran lists the steps
\* that ran: "read", "parse", "format", "print".

UsageLine == [kind |-> "usage"]
ErrorLine(msg) == [kind |-> "error", msg |-> msg]
ReportLine(body) == [kind |-> "report", body |-> body]
CannotReadMsg == [name |-> "Error", text |-> "Cannot read file"]

ArgLists == { <<>>, << "crash.ips" >>, << "crash.ips", "more" >> }
Unreadable == [readable |-> FALSE, content |-> <<>>]
Files == { Unreadable } \cup { [readable |-> TRUE, content |-> c] : c \in Inputs }

InitCli ==
    /\ ipsContent = <<>>
    /\ metadata = [p \in Parsers |-> JSNull]
    /\ report = [p \in Parsers |-> JSNull]
    /\ parsed = [p \in Parsers |-> NotCalled]
    /\ formatted = [p \in Parsers |-> NotCalled]
    /\ page = NoPage
    /\ \E args \in ArgLists, file \in Files :
          /\ args = <<>> => file = Unreadable
          /\ cli = [pc |-> "start", args |-> args, file |-> file,
                    content |-> <<>>, parser |-> [metadata |-> JSNull, report |-> JSNull],
                    text |-> <<>>, out |-> <<>>, code |-> Undefined, ran |-> <<>>]

\* quit(code)
Quit(c, code) == [c EXCEPT !.pc = "done", !.code = Some(code)]

\* args.length === 0: the usage text, quit(1)
CliUsage ==
    /\ cli.pc = "start"
    /\ Len(cli.args) = 0
    /\ cli' = Quit([cli EXCEPT !.out = Append(@, UsageLine)], 1)
    /\ UNCHANGED << ipsContent, metadata, report, parsed, formatted, page >>

\* A reading that goes on to parse after a failed readFile().
CliReadFileNoQuit ==
    /\ cli.pc = "start"
    /\ Len(cli.args) > 0
    /\ cli' = IF cli.file.readable
              THEN [cli EXCEPT !.pc = "parse", !.content = cli.file.content,
                               !.ran = Append(@, "read")]
              ELSE [cli EXCEPT !.pc = "parse",
                               !.out = Append(@, ErrorLine(CannotReadMsg)),
                               !.ran = Append(@, "read")]
    /\ UNCHANGED << ipsContent, metadata, report, parsed, formatted, page >>

\* content = readFile(args[0]); on failure one error line, quit(1)
CliReadFile ==
    /\ cli.pc = "start"
    /\ Len(cli.args) > 0
    /\ cli' = IF cli.file.readable
              THEN [cli EXCEPT !.pc = "parse", !.content = cli.file.content,
                               !.ran = Append(@, "read")]
              ELSE Quit([cli EXCEPT !.out = Append(@, ErrorLine(CannotReadMsg)),
                                    !.ran = Append(@, "read")], 1)
    /\ UNCHANGED << ipsContent, metadata, report, parsed, formatted, page >>

\* parser = new IPSParser(content); parser.parse(); a throw is caught:
\* one error line, quit(1)
CliParse ==
    /\ cli.pc = "parse"
    /\ LET r == ParseCall([ipsContent |-> cli.content, metadata |-> JSNull,
                            report |-> JSNull]) IN
       cli' = IF r.threw
              THEN Quit([cli EXCEPT !.out = Append(@, ErrorLine(r.msg)),
                                    !.ran = Append(@, "parse")], 1)
              ELSE [cli EXCEPT !.pc = "format",
                               !.parser = [metadata |-> r.metadata, report |-> r.report],
                               !.ran = Append(@, "parse")]
    /\ UNCHANGED << ipsContent, metadata, report, parsed, formatted, page >>

\* formatted = parser.formatReport(); a throw is caught: one error line,
\* quit(1)
CliFormat ==
    /\ cli.pc = "format"
    /\ LET f == formatReport(cli.parser.metadata, cli.parser.report) IN
       cli' = IF f.threw
              THEN Quit([cli EXCEPT !.out = Append(@, ErrorLine(f.msg)),
                                    !.ran = Append(@, "format")], 1)
              ELSE [cli EXCEPT !.pc = "print", !.text = f.out,
                               !.ran = Append(@, "format")]
    /\ UNCHANGED << ipsContent, metadata, report, parsed, formatted, page >>

\* print(formatted); quit(0)
CliPrint ==
    /\ cli.pc = "print"
    /\ cli' = Quit([cli EXCEPT !.out = Append(@, ReportLine(cli.text)),
                               !.ran = Append(@, "print")], 0)
    /\ UNCHANGED << ipsContent, metadata, report, parsed, formatted, page >>

NextCli ==
    \/ CliUsage
    \/ CliReadFile
    \/ CliParse
    \/ CliFormat
    \/ CliPrint

SpecCli == InitCli /\ [][NextCli]_vars


\* ----------------------------------------------------------- the page
\* The UI controllers of parser.js (kind "text", with a Copy button) and
\* of structured-parser.js (kind "dom", with Expand All / Collapse All).
\* page.input is ipsInput.value; page.error and page.output are the
\* display and the content of #errorMessage and of #output/#reportOutput;
\* page.label is copyBtn.textContent; page.writes counts the clipboard
\* writes not yet settled, page.failed tells whether one was rejected, and
\* page.timers lists the originalText of every pending setTimeout
\* callback, in the order they are due.

PageKinds == { "text", "dom" }
EmptyInputMsg == [name |-> "Error", text |-> "Please paste IPS file contents first."]
CopyFailedMsg == [name |-> "Error", text |-> "Failed to copy to clipboard"]
CopyLabel == "Copy"
CopiedLabel == "Copied!"

\* What the user may put in the textarea: nothing, a blank, text that
\* does not decode, and reports that format or fail to format.
PageInputs ==
    { <<>>, << SP >>, << LBrace >>,
      << DocTok(Meta309), NL, DocTok(JSNull) >>,
      << DocTok(Meta309), NL, DocTok(EmptyObj) >>,
      << DocTok(Meta309), NL, DocTok([EmptyObj EXCEPT !.vmSummary = Some("vm")]) >>,
      << DocTok(Meta309), NL,
         DocTok([EmptyObj EXCEPT !.threads = Some(<< ThreadOf(<< Frame0 >>) >>)]) >> }

\* The page as a click on Clear leaves it.
InitPage ==
    /\ ipsContent = <<>>
    /\ metadata = [p \in Parsers |-> JSNull]
    /\ report = [p \in Parsers |-> JSNull]
    /\ parsed = [p \in Parsers |-> NotCalled]
    /\ formatted = [p \in Parsers |-> NotCalled]
    /\ cli = NoCli
    /\ \E kind \in PageKinds :
          page = [kind |-> kind, input |-> <<>>,
                  error |-> [display |-> "none", msg |-> <<>>],
                  output |-> [display |-> "none", body |-> <<>>],
                  label |-> CopyLabel, clicks |-> 0, writes |-> 0,
                  failed |-> FALSE, timers |-> <<>>]

\* showError(message)
showError(pg, message) ==
    [pg EXCEPT !.error = [display |-> "block", msg |-> Some(message)]]

\* The user edits the textarea.
TypeInput ==
    /\ \E c \in PageInputs : page' = [page EXCEPT !.input = c]
    /\ UNCHANGED << ipsContent, metadata, report, parsed, formatted, cli >>

\* The click handler of parseBtn (also run by Ctrl/Cmd + Enter).
ParseClick ==
    /\ LET content == Trim(page.input)
           r == ParseCall([ipsContent |-> content, metadata |-> JSNull,
                           report |-> JSNull])
           f == IF page.kind = "text" THEN formatReport(r.metadata, r.report)
                ELSE formatReportDom(r.metadata, r.report)
       IN page' =
            IF content = <<>>
            THEN showError(page, EmptyInputMsg)
            ELSE IF r.threw
            THEN [showError(page, r.msg) EXCEPT !.output.display = "none"]
            ELSE IF f.threw
            THEN [showError(page, f.msg) EXCEPT !.output.display = "none"]
            ELSE [page EXCEPT !.output = [display |-> "block", body |-> f.out],
                              !.error.display = "none"]
    /\ UNCHANGED << ipsContent, metadata, report, parsed, formatted, cli >>

\* The click handler of clearBtn.
ClearClick ==
    /\ page' = [page EXCEPT !.input = <<>>, !.output.display = "none",
                            !.error.display = "none"]
    /\ UNCHANGED << ipsContent, metadata, report, parsed, formatted, cli >>

\* The click handler of copyBtn: navigator.clipboard.writeText(text) is
\* started.
CopyClick ==
    /\ page.kind = "text"
    /\ page.clicks < MaxClicks
    /\ page' = [page EXCEPT !.clicks = @ + 1, !.writes = @ + 1]
    /\ UNCHANGED << ipsContent, metadata, report, parsed, formatted, cli >>

\* The then() callback of a write: the label is saved and replaced, and
\* the timer that restores it is started.
WriteResolved ==
    /\ page.writes > 0
    /\ page' = [page EXCEPT !.writes = @ - 1, !.label = CopiedLabel,
                            !.timers = Append(@, page.label)]
    /\ UNCHANGED << ipsContent, metadata, report, parsed, formatted, cli >>

\* The catch() callback of a write.
WriteRejected ==
    /\ page.writes > 0
    /\ page' = [showError(page, CopyFailedMsg) EXCEPT !.writes = @ - 1,
                                                      !.failed = TRUE]
    /\ UNCHANGED << ipsContent, metadata, report, parsed, formatted, cli >>

\* The setTimeout callback that is due first.
TimerFires ==
    /\ page.timers # <<>>
    /\ page' = [page EXCEPT !.label = Head(page.timers), !.timers = Tail(@)]
    /\ UNCHANGED << ipsContent, metadata, report, parsed, formatted, cli >>

\* The click handlers of expandAllBtn and collapseAllBtn.
SetAllOpen(open) ==
    /\ page.kind = "dom"
    /\ page' = [page EXCEPT !.output.body =
                   [i \in 1..Len(@) |-> [@[i] EXCEPT !.open = open]]]
    /\ UNCHANGED << ipsContent, metadata, report, parsed, formatted, cli >>

NextPage ==
    \/ TypeInput
    \/ ParseClick
    \/ ClearClick
    \/ CopyClick
    \/ WriteResolved
    \/ WriteRejected
    \/ TimerFires
    \/ SetAllOpen(TRUE)
    \/ SetAllOpen(FALSE)

SpecPage == InitPage /\ [][NextPage]_vars


\* ============================================================ claims

\* The input as the claims describe it: the string between its first and
\* last non-blank token, its line breaks, its first line, and the rest.
Ink(c) == { i \in DOMAIN c : ~IsWs(c[i]) }
Least(S) == CHOOSE i \in S : \A j \in S : i <= j
Greatest(S) == CHOOSE i \in S : \A j \in S : i >= j
Core(c) == IF Ink(c) = {} THEN <<>> ELSE SubSeq(c, Least(Ink(c)), Greatest(Ink(c)))
Breaks(c) == { i \in DOMAIN Core(c) : Core(c)[i] = NL }
LineCount(c) == Cardinality(Breaks(c)) + 1
MetaLine(c) ==
    IF Breaks(c) = {} THEN Core(c) ELSE SubSeq(Core(c), 1, Least(Breaks(c)) - 1)
ReportPart(c) ==
    IF Breaks(c) = {} THEN <<>>
    ELSE SubSeq(Core(c), Least(Breaks(c)) + 1, Len(Core(c)))

Called(p) == parsed[p].st # "none"
ParseThrew(p) == parsed[p].st = "threw"
ParseOk(p) == parsed[p].st = "ok"

\* C1: parse() fails for every input that, trimmed and split on newline,
\* has fewer than 2 lines; it never returns true for such an input.
C1_TooFewLinesFails ==
    \A p \in Parsers :
        Called(p) /\ LineCount(ipsContent) < 2 => ParseThrew(p)

\* A one-line input that is itself valid "309" metadata was rejected.
C1_Witness ==
    /\ Core(ipsContent) = << DocTok(Meta309) >>
    /\ \A p \in Parsers : ParseThrew(p)

\* C2 (as claimed): for every input (of at least 2 lines) whose metadata
\* line parses to an object with a bug_type other than the string "309",
\* parse() fails with an error that names the bug_type mismatch.
MetaValue(c) == JSONParse(MetaLine(c))
OtherBugType(c) ==
    /\ MetaValue(c).ok
    /\ MetaValue(c).v.jt = "object"
    /\ MetaValue(c).v.bug_type # Some(BugType("string", "309"))
NamesBugType(p) ==
    /\ ParseThrew(p)
    /\ parsed[p].msg = ParseError(NotCrashReportMsg(MetaValue(ipsContent).v.bug_type))

C2_Original ==
    \A p \in Parsers :
        Called(p) /\ LineCount(ipsContent) >= 2 /\ OtherBugType(ipsContent)
        => NamesBugType(p)

\* C2 (amended): parse() returns true only if the metadata line parses to
\* a value whose bug_type is strictly the string "309"; for every input of
\* at least 2 lines whose metadata line parses to an object with another
\* bug_type and whose report part is valid JSON, parse() fails with the
\* error that names the bug_type mismatch; with an invalid report part it
\* fails with the report part's syntax error, and with fewer than 2 lines
\* it fails too.
C2_BugTypeStrict ==
    \A p \in Parsers :
        /\ ParseOk(p) =>
              /\ MetaValue(ipsContent).ok
              /\ MetaValue(ipsContent).v.bug_type = Some(BugType("string", "309"))
        /\ Called(p) /\ OtherBugType(ipsContent) =>
              /\ ParseThrew(p)
              /\ (LineCount(ipsContent) >= 2 /\ JSONParse(ReportPart(ipsContent)).ok
                    => NamesBugType(p))
              /\ (LineCount(ipsContent) >= 2 /\ ~JSONParse(ReportPart(ipsContent)).ok
                    => parsed[p].msg =
                          ParseError(JSONParse(ReportPart(ipsContent)).msg))

\* The number 309 as bug_type, before a valid report: rejected by name.
C2_Witness ==
    /\ MetaValue(ipsContent).ok
    /\ MetaValue(ipsContent).v = MetaNum309
    /\ JSONParse(ReportPart(ipsContent)).ok
    /\ \A p \in Parsers : NamesBugType(p)

\* C3: parse() fails whenever the first line is not valid JSON or the
\* remaining lines, rejoined with newline, are not valid JSON.
C3_SyntaxErrorFails ==
    \A p \in Parsers :
        /\ Called(p)
        /\ \/ ~JSONParse(MetaLine(ipsContent)).ok
           \/ ~JSONParse(ReportPart(ipsContent)).ok
        => ParseThrew(p)

\* Valid "309" metadata followed by a report part that is not JSON.
C3_Witness ==
    /\ LineCount(ipsContent) >= 2
    /\ MetaLine(ipsContent) = << DocTok(Meta309) >>
    /\ ~JSONParse(ReportPart(ipsContent)).ok
    /\ \A p \in Parsers : ParseThrew(p)

\* C4: the errors of the four phases (too few lines, metadata syntax,
\* report syntax, bug_type) are pairwise distinguishable by message: no
\* input fails in another phase with the message this parser got.
FreshParser(c) == [ipsContent |-> c, metadata |-> JSNull, report |-> JSNull]
C4_MessageNamesPhase ==
    \A p \in Parsers :
        ParseThrew(p) =>
            \A c \in DecodeInputs :
                ParseCall(FreshParser(c)).threw
                /\ ParseCall(FreshParser(c)).msg = parsed[p].msg
                => ParseCall(FreshParser(c)).phase = parsed[p].phase

\* C5: for a two-line input whose first line is {"bug_type":"309"} and
\* whose second line is a valid JSON value, parse() returns true, the
\* report is that value and the metadata is the parsed first line.
RoundTripInput(c) ==
    /\ LineCount(c) = 2
    /\ MetaLine(c) = << DocTok(Meta309) >>
    /\ JSONParse(ReportPart(c)).ok

C5_RoundTrip ==
    \A p \in Parsers :
        Called(p) /\ RoundTripInput(ipsContent) =>
            /\ ParseOk(p)
            /\ report[p] = JSONParse(ReportPart(ipsContent)).v
            /\ metadata[p] = Meta309

\* A report with sections set came back as written.
C5_Witness ==
    /\ RoundTripInput(ipsContent)
    /\ \A p \in Parsers :
          ParseOk(p) /\ IsSet(report[p].asi) /\ IsSet(report[p].vmSummary)

\* C6: whenever parse() throws, metadata and report are not both
\* populated afterwards, and a following formatReport() fails with
\* 'Report not parsed. Call parse() first.'.
C6_NoPartialResult ==
    \A p \in Parsers :
        ParseThrew(p) =>
            /\ ~(Truthy(metadata[p]) /\ Truthy(report[p]))
            /\ formatted[p].st # "none" =>
                  formatted[p].st = "threw" /\ formatted[p].msg = NotParsedMsg


\* The sections of a rendering, in the order they occur in it.
CanonicalOrder ==
    << "Process Information", "Exception Information",
       "Application Specific Information", "Last Exception Backtrace",
       "Threads", "Binary Images", "External Modification Summary",
       "VM Region Summary", "Filtered Log" >>
AlwaysPresent ==
    << "Process Information", "Exception Information", "Threads", "Binary Images" >>

RECURSIVE Collapse(_)
Collapse(ss) ==
    IF Len(ss) < 2 THEN ss
    ELSE IF ss[1] = ss[2] THEN Collapse(Tail(ss))
    ELSE << ss[1] >> \o Collapse(Tail(ss))

SectionsIn(p, out) ==
    IF p = "text"
    THEN LET pieces == SelectSeq(out, LAMBDA x : x.kind # "sep") IN
         Collapse([i \in 1..Len(pieces) |-> pieces[i].sec])
    ELSE [i \in 1..Len(out) |-> out[i].sec]

Sections(p) == SectionsIn(p, formatted[p].out)
Emitted(p, sec) == \E i \in 1..Len(Sections(p)) : Sections(p)[i] = sec
Position(sec) == CHOOSE i \in 1..Len(CanonicalOrder) : CanonicalOrder[i] = sec

FormatCalled(p) == formatted[p].st # "none"
FormatOk(p) == formatted[p].st = "ok"

\* formatReport() of parser p on a given metadata and report.
Render(p, m, r) == IF p = "text" THEN formatReport(m, r) ELSE formatReportDom(m, r)

\* C7: in both renderers the sections of every rendering occur in the
\* fixed order Process Information, Exception Information, Application
\* Specific Information, Last Exception Backtrace, Threads, Binary Images,
\* External Modification Summary, VM Region Summary, Filtered Log.
C7_SectionOrder ==
    \A p \in Parsers :
        FormatOk(p) =>
            \A i, j \in 1..Len(Sections(p)) :
                i < j => Position(Sections(p)[i]) < Position(Sections(p)[j])

\* Both renderers emitted all nine sections.
C7_Witness ==
    \A p \in Parsers : FormatOk(p) /\ Sections(p) = CanonicalOrder

\* C8: for a report with none of asi, lastExceptionBacktrace, extMods,
\* vmSummary and filteredLog, formatReport() returns without throwing and
\* emits exactly Process Information, Exception Information, Threads and
\* Binary Images.
NoOptionalSection(r) ==
    /\ r.jt = "object"
    /\ ~IsSet(r.asi) /\ ~IsSet(r.lastExceptionBacktrace) /\ ~IsSet(r.extMods)
    /\ ~IsSet(r.vmSummary) /\ ~IsSet(r.filteredLog)

C8_AlwaysPresentOnly ==
    \A p \in Parsers :
        ParseOk(p) /\ NoOptionalSection(report[p]) /\ FormatCalled(p) =>
            FormatOk(p) /\ Sections(p) = AlwaysPresent

\* C9: Last Exception Backtrace is emitted iff lastExceptionBacktrace is a
\* non-empty list; for an empty list formatReport() does not throw and
\* renders what it renders for the same report without the field.
WithoutBacktrace(r) == [r EXCEPT !.lastExceptionBacktrace = Undefined]

C9_EmptyBacktrace ==
    \A p \in Parsers :
        /\ FormatOk(p) =>
              (Emitted(p, "Last Exception Backtrace")
                 <=> BacktraceOf(report[p]) # <<>>)
        /\ /\ ParseOk(p) /\ FormatCalled(p)
           /\ report[p].lastExceptionBacktrace = Some(<<>>)
           /\ ~Render(p, metadata[p], WithoutBacktrace(report[p])).threw
           => /\ FormatOk(p)
              /\ formatted[p].out =
                    Render(p, metadata[p], WithoutBacktrace(report[p])).out

\* C10: whenever formatReport() returns, Application Specific Information,
\* External Modification Summary and VM Region Summary are emitted iff
\* asi, extMods, vmSummary are set (vmSummary = "" included), and Filtered
\* Log iff filteredLog is a non-empty list.
C10_OptionalSections ==
    \A p \in Parsers :
        FormatOk(p) =>
            /\ Emitted(p, "Application Specific Information") <=> IsSet(report[p].asi)
            /\ Emitted(p, "External Modification Summary") <=> IsSet(report[p].extMods)
            /\ Emitted(p, "VM Region Summary") <=> IsSet(report[p].vmSummary)
            /\ Emitted(p, "Filtered Log") <=>
                  (IsSet(report[p].filteredLog) /\ report[p].filteredLog[1] # <<>>)


\* The frames of a report, in rendering order, and the rows a rendering
\* shows for them in a section.
ThreadFrames(r) ==
    Flatten([i \in 1..Len(ThreadsOf(r)) |-> FramesOf(ThreadsOf(r)[i])])
FramesIn(r, sec) ==
    IF sec = "Threads" THEN ThreadFrames(r) ELSE BacktraceOf(r)
FrameSections == { "Threads", "Last Exception Backtrace" }

RowsOf(p, sec) ==
    IF p = "text"
    THEN SelectSeq(formatted[p].out, LAMBDA x : x.kind # "sep" /\ x.sec = sec)
    ELSE Flatten([i \in 1..Len(formatted[p].out) |->
                    IF formatted[p].out[i].sec = sec
                    THEN formatted[p].out[i].rows ELSE <<>>])
FrameRows(p, sec) == SelectSeq(RowsOf(p, sec), LAMBDA x : x.kind = "frame")

\* formatReport() of p was called on a parsed report object that has
\* usedImages and at least one frame.
HasFrames(r) == ThreadFrames(r) # <<>> \/ BacktraceOf(r) # <<>>
RenderedFrames(p) ==
    /\ ParseOk(p) /\ FormatCalled(p)
    /\ report[p].jt = "object"
    /\ IsSet(report[p].usedImages)
    /\ HasFrames(report[p])
FrameResolutionThrew(p) ==
    /\ formatted[p].st = "threw"
    /\ formatted[p].msg \in { UsedImagesTypeError, ImageNameTypeError }

OutOfRange(r, frame) ==
    frame.imageIndex < 0 \/ frame.imageIndex >= Len(ImagesOf(r))

\* C11: for every frame, in a thread or in the last exception backtrace,
\* whose imageIndex is negative or not less than the length of usedImages,
\* frame resolution does not throw, the image name shown is "Unknown" and
\* the base address is 0 (the address shown is the frame's imageOffset).
C11_OutOfRangeUnknown ==
    \A p \in Parsers :
        RenderedFrames(p) =>
            /\ (\A sec \in FrameSections : \A i \in 1..Len(FramesIn(report[p], sec)) :
                    OutOfRange(report[p], FramesIn(report[p], sec)[i]))
               => ~FrameResolutionThrew(p)
            /\ FormatOk(p) =>
                 \A sec \in FrameSections : \A i \in 1..Len(FrameRows(p, sec)) :
                    OutOfRange(report[p], FramesIn(report[p], sec)[i]) =>
                       /\ FrameRows(p, sec)[i].name = "Unknown"
                       /\ FrameRows(p, sec)[i].addr =
                             FramesIn(report[p], sec)[i].imageOffset

\* The image a frame points at and its base, as the claims state them.
PointedImage(r, frame) == ImagesOf(r)[frame.imageIndex + 1]
ExpectedBase(r, frame) ==
    IF ~OutOfRange(r, frame) /\ IsSet(PointedImage(r, frame).base)
    THEN PointedImage(r, frame).base[1]
    ELSE 0

\* C12: for every frame, the rendered address equals the base of
\* usedImages[imageIndex] plus imageOffset, the base being 0 when the
\* image is missing or has no base; base 0x1000 and offset 0x10 give 0x1010.
C12_AddressIsBasePlusOffset ==
    \A p \in Parsers :
        RenderedFrames(p) /\ FormatOk(p) =>
            \A sec \in FrameSections :
                /\ Len(FrameRows(p, sec)) = Len(FramesIn(report[p], sec))
                /\ \A i \in 1..Len(FrameRows(p, sec)) :
                      FrameRows(p, sec)[i].addr =
                         ExpectedBase(report[p], FramesIn(report[p], sec)[i])
                         + FramesIn(report[p], sec)[i].imageOffset

\* Both renderers showed 0x1010 for a frame at offset 0x10 of the second
\* image, whose base is 0x1000, in the thread and in the backtrace.
C12_Witness ==
    \A p \in Parsers :
        /\ RenderedFrames(p) /\ FormatOk(p)
        /\ report[p].usedImages = Some(<< ImageB, ImageA >>)
        /\ \A sec \in FrameSections :
              /\ Len(FrameRows(p, sec)) = 1
              /\ FramesIn(report[p], sec)[1].imageIndex = 1
              /\ FramesIn(report[p], sec)[1].imageOffset = 16
              /\ FrameRows(p, sec)[1].addr = 4112

\* The label the claims state for a frame: the symbol, or the base+offset
\* fallback, and the symbol location whenever it is defined.
ExpectedLabel(r, frame) ==
    [symbol |-> frame.symbol,
     fallback |-> IF IsSet(frame.symbol) THEN Undefined
                  ELSE Some([base |-> ExpectedBase(r, frame),
                             offset |-> frame.imageOffset]),
     location |-> frame.symbolLocation]

\* C13: for every frame, the rendered label is frame.symbol when a symbol
\* is defined and otherwise the fallback "0x" + hex(base) + " + " +
\* imageOffset; and whenever frame.symbolLocation is defined, " + " +
\* symbolLocation is appended, whether or not a symbol is defined.
C13_FrameLabel ==
    \A p \in Parsers :
        RenderedFrames(p) /\ FormatOk(p) =>
            \A sec \in FrameSections : \A i \in 1..Len(FrameRows(p, sec)) :
                FrameRows(p, sec)[i].label =
                    ExpectedLabel(report[p], FramesIn(report[p], sec)[i])

\* What a frame row resolves to: image name, address and label.
Resolution(row) == [name |-> row.name, addr |-> row.addr, label |-> row.label]

\* C14: the text and the structured renderer yield the same image name,
\* address and label for every frame of every report, and within one
\* renderer a frame resolves identically in a thread and in the last
\* exception backtrace.
C14_SameResolution ==
    /\ (\A p \in Parsers : RenderedFrames(p) /\ FormatOk(p)) =>
          \A sec \in FrameSections :
              /\ Len(FrameRows("text", sec)) = Len(FrameRows("dom", sec))
              /\ \A i \in 1..Len(FrameRows("text", sec)) :
                    Resolution(FrameRows("text", sec)[i])
                       = Resolution(FrameRows("dom", sec)[i])
    /\ \A p \in Parsers :
          RenderedFrames(p) /\ FormatOk(p) =>
              \A i \in 1..Len(FrameRows(p, "Threads")) :
              \A j \in 1..Len(FrameRows(p, "Last Exception Backtrace")) :
                  ThreadFrames(report[p])[i] = BacktraceOf(report[p])[j] =>
                      Resolution(FrameRows(p, "Threads")[i])
                         = Resolution(FrameRows(p, "Last Exception Backtrace")[j])

\* The rows of the Binary Images section, and the usedImages entries that
\* are no placeholders, in the order of usedImages.
ImageRows(p) == SelectSeq(RowsOf(p, "Binary Images"), LAMBDA x : x.kind = "image")
NonPlaceholders(r) ==
    SelectSeq(ImagesOf(r), LAMBDA image : image.size # Some(0))

\* C15: a usedImages entry with size 0 never produces a row in the Binary
\* Images section (the rows are the other entries, in order), yet it keeps
\* its position: a frame whose imageIndex points at an entry, placeholder
\* or not, resolves to the name and base of the entry at that index.
C15_PlaceholderImages ==
    \A p \in Parsers :
        ParseOk(p) /\ FormatOk(p) /\ report[p].jt = "object" =>
            /\ Len(ImageRows(p)) = Len(NonPlaceholders(report[p]))
            /\ \A i \in 1..Len(ImageRows(p)) :
                  /\ NonPlaceholders(report[p])[i].base
                        \in { Undefined, Some(ImageRows(p)[i].base) }
                  /\ NonPlaceholders(report[p])[i].name
                        \in { Undefined, Some(ImageRows(p)[i].name) }
            /\ IsSet(report[p].usedImages) =>
                 \A sec \in FrameSections : \A i \in 1..Len(FrameRows(p, sec)) :
                    LET frame == FramesIn(report[p], sec)[i] IN
                    ~OutOfRange(report[p], frame)
                    /\ IsSet(PointedImage(report[p], frame).name) =>
                       /\ FrameRows(p, sec)[i].name =
                             PointedImage(report[p], frame).name[1]
                       /\ FrameRows(p, sec)[i].addr =
                             ExpectedBase(report[p], frame) + frame.imageOffset

\* usedImages is a placeholder P followed by A, and the frame points at
\* P: both renderers list A alone under Binary Images and resolve the
\* frame to P and P's base 0x2000.
C15_Witness ==
    \A p \in Parsers :
        /\ ParseOk(p) /\ FormatOk(p)
        /\ report[p].usedImages = Some(<< ImageP, ImageA >>)
        /\ Len(ImageRows(p)) = 1
        /\ ImageRows(p)[1].name = "A"
        /\ \A sec \in FrameSections :
              /\ Len(FrameRows(p, sec)) = 1
              /\ FramesIn(report[p], sec)[1].imageIndex = 0
              /\ FrameRows(p, sec)[1].name = "P"
              /\ FrameRows(p, sec)[1].addr = 8208

\* The thread headers, frame rows and register-state blocks of the
\* Threads section, in the order of the rendering.
ThreadRows(p) ==
    SelectSeq(RowsOf(p, "Threads"),
              LAMBDA x : x.kind \in { "thread", "frame", "state" })
StateBlocks(p) == SelectSeq(ThreadRows(p), LAMBDA x : x.kind = "state")

\* The thread whose header is the last one before row i.
OwnerOf(p, i) ==
    LET h == Greatest({ j \in 1..i : ThreadRows(p)[j].kind = "thread" })
    IN Cardinality({ j \in 1..h : ThreadRows(p)[j].kind = "thread" })

\* A thread gets register state: it is triggered, the report names a
\* faulting thread, and the thread has a threadState.
Eligible(r, thread) ==
    thread.triggered /\ IsSet(r.faultingThread) /\ IsSet(thread.threadState)
ExpectedKinds(r) ==
    Flatten([i \in 1..Len(ThreadsOf(r)) |->
               << "thread" >>
               \o [j \in 1..Len(FramesOf(ThreadsOf(r)[i])) |-> "frame"]
               \o (IF Eligible(r, ThreadsOf(r)[i]) THEN << "state" >> ELSE <<>>)])

KnownFlavors == { "ARM_THREAD_STATE64", "x86_THREAD_STATE" }
KnownFlavorsOnly(r) ==
    \A i \in 1..Len(ThreadsOf(r)) :
        IsSet(ThreadsOf(r)[i].threadState) =>
            ThreadsOf(r)[i].threadState[1].flavor \in KnownFlavors

\* C16: register state is emitted for a thread iff the thread is
\* triggered, faultingThread is set and the thread has a threadState; at
\* most one block is emitted per report, and the block follows the frames
\* of the triggered thread and is labelled with that thread, in the text
\* and in the structured renderer.  (Stated for reports with at most one
\* triggered thread whose thread states are of the two known flavors.)
C16_RegisterStateOwner ==
    \A p \in Parsers :
        /\ ParseOk(p) /\ FormatOk(p) /\ report[p].jt = "object"
        /\ Cardinality({ i \in 1..Len(ThreadsOf(report[p])) :
                           ThreadsOf(report[p])[i].triggered }) <= 1
        /\ KnownFlavorsOnly(report[p])
        => /\ [i \in 1..Len(ThreadRows(p)) |-> ThreadRows(p)[i].kind]
                 = ExpectedKinds(report[p])
           /\ Len(StateBlocks(p)) <= 1
           /\ p = "text" =>
                \A i \in 1..Len(ThreadRows(p)) :
                    ThreadRows(p)[i].kind = "state" =>
                        ThreadRows(p)[i].thread
                           = ThreadsOf(report[p])[OwnerOf(p, i)].id

\* The canonical layouts as the claims list them, by displayed name.
ArmLayout == << "fp", "lr", "sp", "pc", "cpsr", "far", "esr" >>
X86Layout ==
    << "rax", "rbx", "rcx", "rdx", "rdi", "rsi", "rbp", "rsp",
       "r8", "r9", "r10", "r11", "r12", "r13", "r14", "r15",
       "rip", "rfl", "cr2" >>
LayoutOf(flavor) ==
    IF flavor = "ARM_THREAD_STATE64" THEN ArmLayout
    ELSE IF flavor = "x86_THREAD_STATE" THEN X86Layout
    ELSE <<>>
InLayout(layout, name) == \E i \in 1..Len(layout) : layout[i] = name
PositionIn(layout, name) == CHOOSE i \in 1..Len(layout) : layout[i] = name

\* The report has one triggered thread, which has a thread state, and
\* formatReport() of p returned with one register-state block: the block
\* of that state.
TriggeredThreads(r) ==
    { i \in 1..Len(ThreadsOf(r)) : ThreadsOf(r)[i].triggered }
TheState(r) ==
    ThreadsOf(r)[CHOOSE i \in TriggeredThreads(r) : TRUE].threadState[1]
RenderedState(p) ==
    /\ ParseOk(p) /\ FormatOk(p) /\ report[p].jt = "object"
    /\ Cardinality(TriggeredThreads(report[p])) = 1
    /\ \A i \in TriggeredThreads(report[p]) :
          IsSet(ThreadsOf(report[p])[i].threadState)
    /\ Len(StateBlocks(p)) = 1
RowNames(p) ==
    [i \in 1..Len(StateBlocks(p)[1].registers) |->
        StateBlocks(p)[1].registers[i].name]
XCount(state) == IF IsSet(state.x) THEN Len(state.x[1]) ELSE 0

\* The report with the named keys of its triggered thread's state in
\* another order.
Reordered(regs) ==
    { [i \in 1..Len(regs) |-> regs[f[i]]] : f \in Permutations(1..Len(regs)) }
WithRegs(r, regs) ==
    [r EXCEPT !.threads =
        Some([i \in 1..Len(ThreadsOf(r)) |->
                IF ThreadsOf(r)[i].triggered
                THEN [ThreadsOf(r)[i] EXCEPT !.threadState =
                         Some([TheState(r) EXCEPT !.regs = regs])]
                ELSE ThreadsOf(r)[i]])]

\* C17: the register rows follow the canonical layout of the flavor: for
\* ARM_THREAD_STATE64 x0..xN in index order, then fp, lr, sp, pc, cpsr,
\* far, esr; for x86_THREAD_STATE rax, rbx, rcx, rdx, rdi, rsi, rbp, rsp,
\* r8..r15, rip, rflags (shown as rfl), cr2; and the rows never depend on
\* the key order of the input state.
C17_CanonicalLayout ==
    \A p \in Parsers :
        RenderedState(p) /\ TheState(report[p]).flavor \in KnownFlavors =>
            LET state == TheState(report[p])
                layout == LayoutOf(state.flavor)
                n == IF state.flavor = "ARM_THREAD_STATE64" THEN XCount(state) ELSE 0
                names == RowNames(p)
            IN /\ Len(names) >= n
               /\ \A i \in 1..n : names[i] = XName(i - 1)
               /\ \A i \in (n + 1)..Len(names) : InLayout(layout, names[i])
               /\ \A i, j \in (n + 1)..Len(names) :
                     i < j => PositionIn(layout, names[i]) < PositionIn(layout, names[j])
               /\ \A regs \in Reordered(state.regs) :
                     Render(p, metadata[p], WithRegs(report[p], regs)).out
                        = formatted[p].out

\* An ARM state with x0, x1 and the keys pc, sp in that order: both
\* renderers show x0, x1, sp, pc.
C17_Witness ==
    \A p \in Parsers :
        /\ RenderedState(p)
        /\ TheState(report[p]).flavor = "ARM_THREAD_STATE64"
        /\ XCount(TheState(report[p])) = 2
        /\ [i \in 1..Len(TheState(report[p]).regs) |->
               TheState(report[p]).regs[i].name] = << "pc", "sp" >>
        /\ RowNames(p) = << "x0", "x1", "sp", "pc" >>

\* The rows the claims expect for a state: x0..xN, then the names of the
\* layout whose key occurs in the state, in layout order.
KeyOf(flavor, name) ==
    IF flavor = "x86_THREAD_STATE" /\ name = "rfl" THEN "rflags" ELSE name
HasKey(state, key) == \E i \in 1..Len(state.regs) : state.regs[i].name = key
ExpectedNames(state) ==
    (IF state.flavor = "ARM_THREAD_STATE64"
     THEN [i \in 1..XCount(state) |-> XName(i - 1)] ELSE <<>>)
    \o SelectSeq(LayoutOf(state.flavor),
                 LAMBDA name : HasKey(state, KeyOf(state.flavor, name)))

\* C18: register rows are presence-filtered and never zero-filled: the
\* rows are exactly the registers of the canonical layout that occur in
\* the input state, in canonical order; an ARM_THREAD_STATE64 state with
\* only pc and sp yields exactly 2 rows, sp then pc.
C18_PresenceFiltered ==
    \A p \in Parsers :
        RenderedState(p) /\ TheState(report[p]).flavor \in KnownFlavors =>
            RowNames(p) = ExpectedNames(TheState(report[p]))

\* An ARM state holding only pc and sp: both renderers show 2 rows, sp
\* then pc.
C18_Witness ==
    \A p \in Parsers :
        /\ RenderedState(p)
        /\ TheState(report[p]).flavor = "ARM_THREAD_STATE64"
        /\ XCount(TheState(report[p])) = 0
        /\ { TheState(report[p]).regs[i].name :
               i \in 1..Len(TheState(report[p]).regs) } = { "pc", "sp" }
        /\ RowNames(p) = << "sp", "pc" >>

\* C19: register presence is the presence of the key, not a non-zero
\* value: every register of the layout that the input state holds, with
\* value 0 as with any other value, yields a row that shows its value, in
\* both renderers; so does every element of x.
C19_ZeroRegisterShown ==
    \A p \in Parsers :
        RenderedState(p) /\ TheState(report[p]).flavor \in KnownFlavors =>
            LET state == TheState(report[p])
                rows == StateBlocks(p)[1].registers
            IN /\ \A i \in 1..Len(state.regs) :
                     LET shown == IF state.flavor = "x86_THREAD_STATE"
                                     /\ state.regs[i].name = "rflags"
                                  THEN "rfl" ELSE state.regs[i].name
                     IN InLayout(LayoutOf(state.flavor), shown) =>
                           \E j \in 1..Len(rows) :
                               /\ rows[j].name = shown
                               /\ rows[j].value = state.regs[i].reg.value[1]
               /\ state.flavor = "ARM_THREAD_STATE64" =>
                     \A i \in 1..XCount(state) :
                         /\ Len(rows) >= i
                         /\ rows[i].value = state.x[1][i].value[1]

\* An ARM state whose pc is {"value": 0} beside a non-zero sp: both
\* renderers show a pc row with value 0.
C19_Witness ==
    \A p \in Parsers :
        /\ RenderedState(p)
        /\ TheState(report[p]).flavor = "ARM_THREAD_STATE64"
        /\ TheState(report[p]).regs =
              << [name |-> "pc", reg |-> RegisterOf(0)],
                 [name |-> "sp", reg |-> [value |-> Some(7), description |-> Some("d")]] >>
        /\ \E j \in 1..Len(StateBlocks(p)[1].registers) :
              /\ StateBlocks(p)[1].registers[j].name = "pc"
              /\ StateBlocks(p)[1].registers[j].value = 0

\* C20: for a threadState whose flavor is neither ARM_THREAD_STATE64 nor
\* x86_THREAD_STATE, the register state of the faulting, triggered thread
\* is still emitted, with the title "Register State" and an empty
\* register list, in both renderers.
C20_UnknownFlavor ==
    \A p \in Parsers :
        /\ ParseOk(p) /\ FormatOk(p) /\ report[p].jt = "object"
        /\ IsSet(report[p].faultingThread)
        /\ Cardinality(TriggeredThreads(report[p])) = 1
        /\ \A i \in TriggeredThreads(report[p]) :
              IsSet(ThreadsOf(report[p])[i].threadState)
        /\ TheState(report[p]).flavor \notin KnownFlavors
        => /\ Len(StateBlocks(p)) = 1
           /\ StateBlocks(p)[1].title = "Register State"
           /\ StateBlocks(p)[1].registers = <<>>

\* A frame of r that names no image: usedImages is absent, or the image
\* the frame points at has no name.
Nameless(r, frame) ==
    \/ ~IsSet(r.usedImages)
    \/ ~OutOfRange(r, frame) /\ ~IsSet(PointedImage(r, frame).name)

\* C21: formatReport() never throws for a report whose threads or last
\* exception backtrace have frames, even when usedImages is absent or a
\* referenced image has no name; when usedImages is absent the frames
\* show the name "Unknown" and base 0.
C21_BuildNeverThrows ==
    \A p \in Parsers :
        /\ ParseOk(p) /\ FormatCalled(p) /\ report[p].jt = "object"
        /\ HasFrames(report[p])
        /\ \E sec \in FrameSections : \E i \in 1..Len(FramesIn(report[p], sec)) :
              Nameless(report[p], FramesIn(report[p], sec)[i])
        => /\ ~FrameResolutionThrew(p)
           /\ FormatOk(p) /\ ~IsSet(report[p].usedImages) =>
                \A sec \in FrameSections : \A i \in 1..Len(FrameRows(p, sec)) :
                    /\ FrameRows(p, sec)[i].name = "Unknown"
                    /\ FrameRows(p, sec)[i].addr =
                          FramesIn(report[p], sec)[i].imageOffset

\* What parse() left in a parser constructed with the document.
AsParsed(p) ==
    IF Called(p) THEN ParseCall(FreshParser(ipsContent))
    ELSE [metadata |-> JSNull, report |-> JSNull]

\* C22: formatReport() is deterministic and idempotent: however often it
\* was called on a parser, interleaved in any way with calls on the other
\* parser, the output it returned is the output a further call returns
\* now, and metadata and report are as parse() (or the constructor) left
\* them.
C22_Idempotent ==
    \A p \in Parsers :
        /\ FormatCalled(p) =>
              formatted[p] = CallResult(Render(p, metadata[p], report[p]))
        /\ metadata[p] = AsParsed(p).metadata
        /\ report[p] = AsParsed(p).report

\* Both parsers rendered a report with a register-state block, and a
\* further call on either returns that rendering again.
C22_Witness ==
    \A p \in Parsers :
        /\ ParseOk(p) /\ FormatOk(p)
        /\ Len(StateBlocks(p)) = 1
        /\ Render(p, metadata[p], report[p]).out = formatted[p].out

\* The rows of the Application Specific Information section, and the rows
\* the claims expect for asi: one per element of an array-valued entry and
\* one per scalar entry, each under the entry's key.
AsiRows(p) ==
    LET rows == SelectSeq(RowsOf(p, "Application Specific Information"),
                          LAMBDA x : x.kind = "row")
    IN [i \in 1..Len(rows) |-> [label |-> rows[i].label, value |-> rows[i].value]]
ExpectedAsiRows(asi) ==
    Flatten([i \in 1..Len(asi) |->
               [j \in 1..Len(asi[i].items) |->
                   [label |-> Some(asi[i].key), value |-> asi[i].items[j]]]])

\* C23: in the Application Specific Information section an array-valued
\* asi entry expands to exactly one row per element with the entry's key
\* repeated on each row, and a scalar entry renders as one row
\* "key: value", in both renderers.
C23_AsiRows ==
    \A p \in Parsers :
        ParseOk(p) /\ FormatOk(p) /\ report[p].jt = "object"
        /\ IsSet(report[p].asi)
        => AsiRows(p) = ExpectedAsiRows(report[p].asi[1])

\* The subsections of the External Modification Summary, and the
\* subsections the claims expect: one for each of targeted, caller,
\* system that is set, listing the counters that are defined.
GroupRows(p) ==
    LET rows == SelectSeq(RowsOf(p, "External Modification Summary"),
                          LAMBDA x : x.kind = "group")
    IN [i \in 1..Len(rows) |-> [group |-> rows[i].group, counters |-> rows[i].counters]]
ExpectedCounters(counters) ==
    LET defined == SelectSeq(<< "task_for_pid", "thread_create", "thread_set_state" >>,
                             LAMBDA c : counters[c] # Undefined)
    IN [i \in 1..Len(defined) |-> [name |-> defined[i], value |-> counters[defined[i]][1]]]
ExpectedGroups(extMods) ==
    LET set == SelectSeq(<< "targeted", "caller", "system" >>,
                         LAMBDA g : extMods[g] # Undefined)
    IN [i \in 1..Len(set) |->
          [group |-> set[i], counters |-> ExpectedCounters(extMods[set[i]][1])]]

\* C24: in the External Modification Summary a subsection is emitted for
\* each of targeted, caller, system that is set, in that order, and each
\* lists exactly those of task_for_pid, thread_create, thread_set_state
\* that are defined, a counter with value 0 included and an undefined
\* counter never.
C24_ExtModsGroups ==
    \A p \in Parsers :
        ParseOk(p) /\ FormatOk(p) /\ report[p].jt = "object"
        /\ IsSet(report[p].extMods)
        => GroupRows(p) = ExpectedGroups(report[p].extMods[1])

\* targeted holds task_for_pid 0 alone, caller is absent and system holds
\* no counter: both renderers show targeted with task_for_pid: 0, then
\* system with no counter.
C24_Witness ==
    \A p \in Parsers :
        /\ ParseOk(p) /\ FormatOk(p)
        /\ report[p].extMods =
              Some([targeted |-> Some([NoCounters EXCEPT !.task_for_pid = Some(0)]),
                    caller |-> Undefined, system |-> Some(NoCounters)])
        /\ GroupRows(p) =
              << [group |-> "targeted",
                  counters |-> << [name |-> "task_for_pid", value |-> 0] >>],
                 [group |-> "system", counters |-> <<>>] >>

\* C26: on a freshly constructed parser, and after any sequence of
\* operations in which parse() was never called on it, formatReport()
\* throws 'Report not parsed. Call parse() first.' and produces no output.
C26_ParseBeforeFormat ==
    \A p \in Parsers :
        ~Called(p) /\ FormatCalled(p) =>
            /\ formatted[p].st = "threw"
            /\ formatted[p].msg = NotParsedMsg
            /\ formatted[p].out = <<>>

\* The document is a complete report, neither parser was asked to parse
\* it, and formatReport() was refused on both.
C26_Witness ==
    /\ RoundTripInput(ipsContent)
    /\ JSONParse(ReportPart(ipsContent)).v.jt = "object"
    /\ \A p \in Parsers :
          /\ ~Called(p)
          /\ formatted[p].st = "threw" /\ formatted[p].msg = NotParsedMsg

\* C27: a successful decode puts the parser in the parsed state: for every
\* input on which parse() returns true, the report part being a non-object
\* JSON value such as null or 0 included, a following formatReport() does
\* not fail with 'Report not parsed. Call parse() first.'.
C27_DecodedIsParsed ==
    \A p \in Parsers :
        ParseOk(p) /\ FormatCalled(p) =>
            ~(formatted[p].st = "threw" /\ formatted[p].msg = NotParsedMsg)

\* C30: every row of the Binary Images section shows the range
\* [base, base + size - 1], a missing base taken as 0, and its end is
\* never below its start, for every usedImages entry that is not skipped,
\* an entry without a size field included.
C30_ImageRange ==
    \A p \in Parsers :
        ParseOk(p) /\ FormatOk(p) /\ report[p].jt = "object" =>
            /\ Len(ImageRows(p)) = Len(NonPlaceholders(report[p]))
            /\ \A i \in 1..Len(ImageRows(p)) :
                  LET image == NonPlaceholders(report[p])[i]
                      row == ImageRows(p)[i]
                  IN /\ row.base = (IF IsSet(image.base) THEN image.base[1] ELSE 0)
                     /\ IsSet(image.size) => row.end = row.base + image.size[1] - 1
                     /\ row.end >= row.base

\* What the run's environment decides: whether the file can be read,
\* whether its content decodes, and whether the decoded report formats.
Decoded == ParseCall(FreshParser(cli.file.content))
Rendered == formatReport(Decoded.metadata, Decoded.report)
ReadSucceeds == Len(cli.args) > 0 /\ cli.file.readable
DecodeSucceeds == ReadSucceeds /\ ~Decoded.threw
FormatSucceeds == DecodeSucceeds /\ ~Rendered.threw

\* C25: the CLI exits with code 0 iff an argument is given and reading,
\* decoding and formatting all succeed, and then it prints the formatted
\* text and no error line; without an argument it prints the usage and
\* exits 1; on a read, decode or format failure it prints one error line
\* and no report and exits 1 without running any later step.
C25_CliExitCode ==
    /\ cli.pc # "done" => cli.code = Undefined
    /\ cli.pc = "done" =>
          /\ cli.code \in { Some(0), Some(1) }
          /\ cli.code = Some(0) <=> FormatSucceeds
          /\ FormatSucceeds =>
                /\ cli.out = << ReportLine(Rendered.out) >>
                /\ cli.ran = << "read", "parse", "format", "print" >>
          /\ Len(cli.args) = 0 =>
                cli.out = << UsageLine >> /\ cli.ran = <<>>
          /\ Len(cli.args) > 0 /\ ~ReadSucceeds =>
                cli.out = << ErrorLine(CannotReadMsg) >> /\ cli.ran = << "read" >>
          /\ ReadSucceeds /\ ~DecodeSucceeds =>
                /\ cli.out = << ErrorLine(Decoded.msg) >>
                /\ cli.ran = << "read", "parse" >>
          /\ DecodeSucceeds /\ ~FormatSucceeds =>
                /\ cli.out = << ErrorLine(Rendered.msg) >>
                /\ cli.ran = << "read", "parse", "format" >>

\* A run on a readable file holding a report with a register state ended
\* with code 0 after printing the report alone.
C25_Witness ==
    /\ cli.pc = "done"
    /\ cli.code = Some(0)
    /\ Len(cli.out) = 1
    /\ cli.out[1].kind = "report"
    /\ \E i \in 1..Len(cli.out[1].body) : cli.out[1].body[i].kind = "state"

\* C28: on the page, after any sequence of Parse clicks (with empty, valid
\* or invalid textarea content), Clear clicks and Copy clicks, the error
\* message and the output section are never both displayed.
C28_ErrorOrOutput ==
    page.kind \in PageKinds =>
        ~(page.error.display = "block" /\ page.output.display = "block")

\* C29: for any sequence of clicks on the Copy button whose clipboard
\* writes succeed, once every write has settled and every pending timer
\* has fired the label of the button is the label it had before the first
\* click.
C29_LabelRestored ==
    /\ page.kind = "text" /\ ~page.failed
    /\ page.writes = 0 /\ page.timers = <<>>
    => page.label = CopyLabel


====
